---- MODULE Spec2Model ----
(***************************************************************************)
(* Model of the round-robin load balancer of                                *)
(* src/loadbalancer/loadbalancer.go: the server registry with its health    *)
(* flags, the selector (GetNextServer), the background health monitor       *)
(* (HealthCheck), the forwarder (ServeHTTP) and the status reporter         *)
(* (handleStatus).  Every lock-protected access of a health flag and every  *)
(* network exchange is one step, so that the steps of concurrent request    *)
(* handlers and of the monitor interleave as the goroutines do.             *)
(***************************************************************************)
EXTENDS Integers, Sequences, FiniteSets, TLC

\* ---------------------------------------------------------------- bounds
\* The rotation counter is a uint64.  The model keeps its width even (as 64
\* is) and scales it down: the counter has 2 * CounterHalfBits bits.
CounterHalfBits == 1
\* Number of request-handling goroutines that may be in flight together.
NumReq == 2

\* ----------------------------------------------------- program constants
\* NewLoadBalancer builds a registry of three servers.
NumServers == 3
StatusOK == 200
StatusServiceUnavailable == 503

RECURSIVE Pow(_, _)
Pow(b, e) == IF e = 0 THEN 1 ELSE b * Pow(b, e - 1)

\* Number of values of the rotation counter (2^64 in the program).
Modulus == Pow(4, CounterHalfBits)

Servers == 1 .. NumServers
Reqs == 1 .. NumReq

\* Outcomes of client.Get on the liveness endpoint: a transport error, a
\* response with status 200, a response with another status.
ProbeOutcomes == {"err", "ok", "bad"}

VARIABLES
    Healthy,        \* Healthy[s]: the Healthy field of lb.servers[s]
    current,        \* lb.current
    up,             \* environment: the backends that serve reliably
    hcPc,           \* health monitor: position in HealthCheck
    hcI,            \* health monitor: loop index i
    hcRes,          \* health monitor: outcome of client.Get (res, err)
    wasHealthy,     \* health monitor: local wasHealthy
    pc,             \* pc[r]: position of request handler r
    path,           \* path[r]: "status" or "app", the request's path
    idx,            \* idx[r]: loop index of the handler's current loop
    healthyServers, \* healthyServers[r]: the local slice of GetNextServer
    server,         \* server[r]: the local server of ServeHTTP (0: none)
    resp,           \* resp[r]: status code answered to the client (0: none)
    snap            \* snap[r]: the health flags encoded by handleStatus

progVars == <<Healthy, current, up, hcPc, hcI, hcRes, wasHealthy,
              pc, path, idx, healthyServers, server, resp, snap>>

\* History variables.  They record what has happened and are read by no
\* action of the program; each specification below maintains the ones its
\* properties need and leaves the others at their initial values.
VARIABLES
    calls,          \* calls[r]: GetNextServer calls made for r's request
    sawDown,        \* sawDown[r]: records r's call has read as unhealthy
    dark,           \* dark[r]: every record was unhealthy when r's call
                    \*   started and none has been marked healthy since
    tried,          \* tried[r]: the backend r's request was relayed to
    hcLog,          \* the line the monitor logged for its last probe
    rrHist,         \* the most recent selections, oldest first
    watch,          \* the record B that failed, avoid, failRun and win
                    \*   are about
    failed,         \* 1 when a relay to B has failed and no GetNextServer
                    \*   call has started since, 2 when the monitor has
                    \*   moreover marked B healthy since, else 0
    avoid,          \* avoid[r]: the value of failed when r's call started,
                    \*   moved from 1 to 2 like failed
    failRun,        \* failed probes of B committed in a row with no
                    \*   successful probe of B since (at most 2)
    win,            \* win[r]: 1 when r's call started with failRun > 0 and
                    \*   no probe of B has succeeded since, 2 when one has,
                    \*   else 0
    deep,           \* deep[r]: win[r] # 0 and two failed probes of B in a
                    \*   row were committed before a probe of B succeeded
    cand            \* cand[r]: the vectors of flags the Registry has held
                    \*   since r's handleStatus started that agree with
                    \*   what it has encoded so far

VARIABLES
    picks,          \* GetNextServer calls that have returned a record so
                    \*   far, counted at the counter's width
    nextLog,        \* the counter values the most recent selections have
                    \*   indexed with, oldest first
    seen,           \* seen[r]: the records r's call has read as healthy
    lastCommit,     \* lastCommit[s]: the state the monitor's latest probe
                    \*   of s committed (the constructed state before the
                    \*   first)
    cycled,         \* the monitor has completed a cycle
    probed,         \* the records probed in the monitor's current cycle, in
                    \*   the order of the probes
    mark,           \* a relay to B has failed and no probe of B has
                    \*   returned since
    bare            \* the last access to a health flag was made without
                    \*   holding the record's lock

histMain == <<calls, sawDown, dark, tried>>
histCount == <<picks, nextLog, seen>>
histCycle == <<lastCommit, cycled, probed>>
histRace == <<mark, bare>>
histLater == <<histCount, histCycle, histRace>>
histLog == <<hcLog>>
histRR == <<rrHist>>
histRelay == <<failed, avoid>>
histProbe == <<failRun, win, deep>>
histStatus == <<cand>>

vars == <<progVars, watch, histMain, histLog, histRR, histRelay, histProbe,
          histStatus, histLater>>

\* ------------------------------------------------------- Server record
\* Server.IsHealthy: the flag, read under the record's read lock.
IsHealthy(s) == Healthy[s]

\* Server.SetHealth: the flag, overwritten under the record's write lock.
SetHealth(s, h) == Healthy' = [Healthy EXCEPT ![s] = h]

\* NewLoadBalancer: three records, all healthy, counter 0.
NewLoadBalancer ==
    /\ Healthy = [s \in Servers |-> TRUE]
    /\ current = 0

\* ------------------------------------------------------------ Selector
\* A filter that keeps every record.
AppendAlways(list, i) == Append(list, i)

\* The healthyServers slice after the loop body has run for record i.
AppendIfHealthy(list, i) == IF IsHealthy(i) THEN Append(list, i) ELSE list

\* An increment that is lost.
AddUint64Lost(c) == c

\* An increment by two.
AddUint64Twice(c) == (c + 2) % Modulus

\* atomic.AddUint64(&lb.current, 1): the new value, at the counter's width.
AddUint64(c) == (c + 1) % Modulus

\* A selection that indexes the whole registry instead of the filtered view.
SelectAtRegistry(list, next) == (next % NumServers) + 1

\* A selection that indexes with the counter's value before the increment.
SelectAtBefore(list, next) ==
    list[(((next + Modulus - 1) % Modulus) % Len(list)) + 1]

\* healthyServers[next % uint64(len(healthyServers))], slices being 0-based.
SelectAt(list, next) == list[(next % Len(list)) + 1]

\* A dispatch that sends every path to the selector.
RouteAll(p) == "scan"

\* ServeHTTP dispatches on the path: /lb-status goes to handleStatus and
\* returns, any other path goes on to GetNextServer.
Route(p) == IF p = "status" THEN "status" ELSE "scan"

\* ServeHTTP is entered with a request whose path is p.
StartRequest(r, p) ==
    /\ pc[r] = "idle"
    /\ path' = [path EXCEPT ![r] = p]
    /\ pc' = [pc EXCEPT ![r] = Route(p)]
    /\ idx' = [idx EXCEPT ![r] = 1]
    /\ healthyServers' = [healthyServers EXCEPT ![r] = << >>]
    /\ server' = [server EXCEPT ![r] = 0]
    /\ resp' = [resp EXCEPT ![r] = 0]
    /\ snap' = [snap EXCEPT ![r] = << >>]
    /\ UNCHANGED <<Healthy, current, up, hcPc, hcI, hcRes, wasHealthy>>

\* One iteration of the loop of GetNextServer over lb.servers.
ScanStep(r) ==
    /\ pc[r] = "scan"
    /\ healthyServers' =
           [healthyServers EXCEPT ![r] = AppendIfHealthy(@, idx[r])]
    /\ IF idx[r] = NumServers
          THEN /\ pc' = [pc EXCEPT ![r] = "pick"]
               /\ idx' = [idx EXCEPT ![r] = 1]
          ELSE /\ pc' = pc
               /\ idx' = [idx EXCEPT ![r] = @ + 1]
    /\ UNCHANGED <<Healthy, current, up, hcPc, hcI, hcRes, wasHealthy,
                   path, server, resp, snap>>

\* GetNextServer found no healthy record: it returns the error and
\* ServeHTTP answers 503 without building a proxy.
NoHealthy(r) ==
    /\ pc[r] = "pick"
    /\ Len(healthyServers[r]) = 0
    /\ pc' = [pc EXCEPT ![r] = "idle"]
    /\ resp' = [resp EXCEPT ![r] = StatusServiceUnavailable]
    /\ UNCHANGED <<Healthy, current, up, hcPc, hcI, hcRes, wasHealthy,
                   path, idx, healthyServers, server, snap>>

\* GetNextServer increments the counter and returns a record; ServeHTTP
\* builds the proxy for it.
Pick(r) ==
    /\ pc[r] = "pick"
    /\ Len(healthyServers[r]) # 0
    /\ current' = AddUint64(current)
    /\ server' = [server EXCEPT ![r] = SelectAt(healthyServers[r], current')]
    /\ healthyServers' = [healthyServers EXCEPT ![r] = << >>]
    /\ pc' = [pc EXCEPT ![r] = "relay"]
    /\ UNCHANGED <<Healthy, up, hcPc, hcI, hcRes, wasHealthy,
                   path, idx, resp, snap>>

\* ----------------------------------------------------------- Forwarder
\* Status codes a backend may answer a relayed request with.
BackendStatuses == {200, 500}

\* An ErrorHandler that sends the request back to the selector.
RetryAfterRelayFail == "scan"

\* Where the handler stands once the ErrorHandler has run: ServeHTTP
\* returns, the request is over.
AfterRelayFail == "idle"

\* An ErrorHandler that answers 503 and leaves the record as it is.
MarkNothing(s) == UNCHANGED Healthy

\* An ErrorHandler that marks the record healthy.
MarkHealthy(s) == SetHealth(s, TRUE)

\* server.SetHealth(false) of the ErrorHandler.
MarkFailed(s) == SetHealth(s, FALSE)

\* proxy.ServeHTTP could not reach the backend: the ErrorHandler marks the
\* record unhealthy and answers 503.
RelayFail(r) ==
    /\ pc[r] = "relay"
    /\ server[r] \notin up
    /\ MarkFailed(server[r])
    /\ resp' = [resp EXCEPT ![r] = StatusServiceUnavailable]
    /\ server' = [server EXCEPT ![r] = 0]
    /\ pc' = [pc EXCEPT ![r] = AfterRelayFail]
    /\ UNCHANGED <<current, up, hcPc, hcI, hcRes, wasHealthy,
                   path, idx, healthyServers, snap>>

\* proxy.ServeHTTP got a response: ModifyResponse logs it and the response
\* is passed through.
RelayDone(r) ==
    /\ pc[r] = "relay"
    /\ \E code \in BackendStatuses : resp' = [resp EXCEPT ![r] = code]
    /\ server' = [server EXCEPT ![r] = 0]
    /\ pc' = [pc EXCEPT ![r] = "idle"]
    /\ UNCHANGED <<Healthy, current, up, hcPc, hcI, hcRes, wasHealthy,
                   path, idx, healthyServers, snap>>

\* ------------------------------------------------------ Status Reporter
\* handleStatus hands lb.servers to the JSON encoder, which reads the
\* records one after the other, without taking their locks.
StatusStep(r) ==
    /\ pc[r] = "status"
    /\ snap' = [snap EXCEPT ![r] = Append(@, Healthy[idx[r]])]
    /\ IF idx[r] = NumServers
          THEN /\ pc' = [pc EXCEPT ![r] = "idle"]
               /\ idx' = [idx EXCEPT ![r] = 1]
               /\ resp' = [resp EXCEPT ![r] = StatusOK]
          ELSE /\ pc' = pc
               /\ idx' = [idx EXCEPT ![r] = @ + 1]
               /\ resp' = resp
    /\ UNCHANGED <<Healthy, current, up, hcPc, hcI, hcRes, wasHealthy,
                   path, healthyServers, server>>

\* ------------------------------------------------------- Health Monitor
\* A classification that takes a 200 for a failure.
ProbeInverted(o) == o # "ok"

\* A classification that takes any completed response for a healthy one.
ProbeCompleted(o) == o # "err"

\* healthy := res.StatusCode == http.StatusOK, and false on a transport
\* error: the state a probe outcome commits.
ProbeHealthy(o) == o = "ok"

\* The line HealthCheck logs after committing outcome o over wasHealthy w.
LogLine(o, w) ==
    IF o = "err"
       THEN (IF w THEN "failed" ELSE "none")
       ELSE IF ~w /\ ProbeHealthy(o) THEN "backup"
            ELSE IF w /\ ~ProbeHealthy(o) THEN "down"
            ELSE "still"

\* client.Get(server.URL + "/health") returns.
HCProbe ==
    /\ hcPc = "probe"
    /\ \E o \in ProbeOutcomes :
          /\ hcI \in up => o = "ok"
          /\ hcRes' = o
    /\ hcPc' = "read"
    /\ UNCHANGED <<Healthy, current, up, hcI, wasHealthy,
                   pc, path, idx, healthyServers, server, resp, snap>>

\* wasHealthy := server.IsHealthy()
HCRead ==
    /\ hcPc = "read"
    /\ wasHealthy' = IsHealthy(hcI)
    /\ hcPc' = "commit"
    /\ UNCHANGED <<Healthy, current, up, hcI, hcRes,
                   pc, path, idx, healthyServers, server, resp, snap>>

\* A monitor whose cycle ends at the first probe that fails with a
\* transport error.
HCCommitOrAbort ==
    /\ hcPc = "commit"
    /\ SetHealth(hcI, ProbeHealthy(hcRes))
    /\ hcRes' = "none"
    /\ wasHealthy' = FALSE
    /\ IF hcI = NumServers \/ hcRes = "err"
          THEN hcPc' = "sleep" /\ hcI' = 1
          ELSE hcPc' = "probe" /\ hcI' = hcI + 1
    /\ UNCHANGED <<current, up,
                   pc, path, idx, healthyServers, server, resp, snap>>

\* server.SetHealth(...) and the log line that follows it; then the next
\* record, or the sleep that ends the cycle.
HCCommit ==
    /\ hcPc = "commit"
    /\ SetHealth(hcI, ProbeHealthy(hcRes))
    /\ hcRes' = "none"
    /\ wasHealthy' = FALSE
    /\ IF hcI = NumServers
          THEN hcPc' = "sleep" /\ hcI' = 1
          ELSE hcPc' = "probe" /\ hcI' = hcI + 1
    /\ UNCHANGED <<current, up,
                   pc, path, idx, healthyServers, server, resp, snap>>

\* time.Sleep(30 * time.Second) returns and the next cycle starts.
HCSleep ==
    /\ hcPc = "sleep"
    /\ hcPc' = "probe"
    /\ UNCHANGED <<Healthy, current, up, hcI, hcRes, wasHealthy,
                   pc, path, idx, healthyServers, server, resp, snap>>

\* --------------------------------------------------------- environment
\* Backend s starts to serve reliably: from now on its liveness endpoint
\* answers 200 and relays to it reach it.
BackendUp(s) ==
    /\ s \notin up
    /\ up' = up \cup {s}
    /\ UNCHANGED <<Healthy, current, hcPc, hcI, hcRes, wasHealthy,
                   pc, path, idx, healthyServers, server, resp, snap>>

\* Backend s stops serving reliably: probes of it and relays to it may fail.
BackendDown(s) ==
    /\ s \in up
    /\ up' = up \ {s}
    /\ UNCHANGED <<Healthy, current, hcPc, hcI, hcRes, wasHealthy,
                   pc, path, idx, healthyServers, server, resp, snap>>

\* ------------------------------------------------------- specification
\* main: the registry is built, the monitor goroutine is started and the
\* listener accepts requests.
InitProg ==
    /\ NewLoadBalancer
    /\ hcPc = "probe"
    /\ hcI = 1
    /\ hcRes = "none"
    /\ wasHealthy = FALSE
    /\ pc = [r \in Reqs |-> "idle"]
    /\ path = [r \in Reqs |-> "app"]
    /\ idx = [r \in Reqs |-> 1]
    /\ healthyServers = [r \in Reqs |-> << >>]
    /\ server = [r \in Reqs |-> 0]
    /\ resp = [r \in Reqs |-> 0]
    /\ snap = [r \in Reqs |-> << >>]

InitHist ==
    /\ calls = [r \in Reqs |-> 0]
    /\ sawDown = [r \in Reqs |-> {}]
    /\ dark = [r \in Reqs |-> FALSE]
    /\ tried = [r \in Reqs |-> 0]
    /\ hcLog = "none"
    /\ rrHist = << >>
    /\ failed = 0
    /\ avoid = [r \in Reqs |-> 0]
    /\ failRun = 0
    /\ win = [r \in Reqs |-> 0]
    /\ deep = [r \in Reqs |-> FALSE]
    /\ cand = [r \in Reqs |-> {}]
    /\ picks = 0
    /\ nextLog = << >>
    /\ seen = [r \in Reqs |-> {}]
    /\ lastCommit = [s \in Servers |-> TRUE]
    /\ cycled = FALSE
    /\ probed = << >>
    /\ mark = FALSE
    /\ bare = FALSE

\* Nothing is assumed of the backends: any probe and any relay may fail.
Init == InitProg /\ InitHist /\ up = {} /\ watch = 1

\* ---- the step just taken, in terms of its two states
\* r's request enters GetNextServer in this step.
EntersCall(r) == pc[r] # "scan" /\ pc'[r] = "scan"

\* r's GetNextServer returns a record in this step.
Returns(r) == pc[r] = "pick" /\ pc'[r] = "relay"

\* r's request is answered in this step.
Answers(r) == pc[r] # "idle" /\ pc'[r] = "idle"

\* ---- history kept by Spec: what handler r's step, or the monitor's
\* commit, adds to calls, sawDown and dark.
MainStart(r) ==
    /\ calls' = [calls EXCEPT ![r] = IF EntersCall(r) THEN 1 ELSE 0]
    /\ sawDown' = [sawDown EXCEPT ![r] = {}]
    /\ dark' = [dark EXCEPT ![r] =
                   EntersCall(r) /\ \A s \in Servers : ~Healthy[s]]
    /\ tried' = [tried EXCEPT ![r] = 0]

MainScan(r) ==
    /\ sawDown' = [sawDown EXCEPT ![r] =
                      IF Healthy[idx[r]] THEN @ ELSE @ \cup {idx[r]}]
    /\ UNCHANGED <<calls, dark, tried>>

MainEnd(r) ==
    /\ calls' = [calls EXCEPT ![r] = IF EntersCall(r) THEN @ + 1 ELSE @]
    /\ sawDown' = [sawDown EXCEPT ![r] = {}]
    /\ tried' = [tried EXCEPT ![r] = server[r]]
    /\ UNCHANGED dark

MainCommit ==
    /\ dark' = [r \in Reqs |->
                   dark[r] /\ ~(pc[r] \in {"scan", "pick"} /\ Healthy'[hcI])]
    /\ UNCHANGED <<calls, sawDown, tried>>

histNotMain == <<watch, histLog, histRR, histRelay, histProbe, histStatus,
                  histLater>>

\* The whole program: NumReq request handlers, each serving one request
\* after the other, and the health monitor.
Next ==
    \/ \E r \in Reqs, p \in {"status", "app"} :
          StartRequest(r, p) /\ MainStart(r) /\ UNCHANGED histNotMain
    \/ \E r \in Reqs :
          ScanStep(r) /\ MainScan(r) /\ UNCHANGED histNotMain
    \/ \E r \in Reqs :
          NoHealthy(r) /\ MainEnd(r) /\ UNCHANGED histNotMain
    \/ \E r \in Reqs :
          Pick(r) /\ UNCHANGED <<histMain, histNotMain>>
    \/ \E r \in Reqs :
          RelayFail(r) /\ MainEnd(r) /\ UNCHANGED histNotMain
    \/ \E r \in Reqs :
          RelayDone(r) /\ MainEnd(r) /\ UNCHANGED histNotMain
    \/ \E r \in Reqs :
          StatusStep(r) /\ UNCHANGED <<histMain, histNotMain>>
    \/ HCProbe /\ UNCHANGED <<histMain, histNotMain>>
    \/ HCRead /\ UNCHANGED <<histMain, histNotMain>>
    \/ HCCommit /\ MainCommit /\ UNCHANGED histNotMain
    \/ HCSleep /\ UNCHANGED <<histMain, histNotMain>>

Spec == Init /\ [][Next]_vars

\* ------------------------------------------- sequential selections
\* Length of the window of recent selections that rrHist keeps.
MaxWindow == 4

\* Every backend serves reliably, so every record stays healthy.
InitRR == InitProg /\ InitHist /\ up = Servers /\ watch = 1

\* No GetNextServer call is in progress.
NoCallInProgress == \A q \in Reqs : pc[q] \notin {"scan", "pick"}

histNotRR == <<watch, histMain, histLog, histRelay, histProbe, histStatus,
                histLater>>

RRPick(r) ==
    /\ rrHist' = (IF Len(rrHist) = MaxWindow THEN Tail(rrHist) ELSE rrHist)
                    \o <<server'[r]>>
    /\ UNCHANGED histNotRR

\* Requests for application paths whose GetNextServer calls do not
\* overlap, against backends that all serve reliably.
NextRR ==
    \/ \E r \in Reqs :
          /\ NoCallInProgress
          /\ StartRequest(r, "app")
          /\ UNCHANGED <<histRR, histNotRR>>
    \/ \E r \in Reqs : ScanStep(r) /\ UNCHANGED <<histRR, histNotRR>>
    \/ \E r \in Reqs : Pick(r) /\ RRPick(r)
    \/ \E r \in Reqs : RelayDone(r) /\ UNCHANGED <<histRR, histNotRR>>
    \/ HCProbe /\ UNCHANGED <<histRR, histNotRR>>
    \/ HCRead /\ UNCHANGED <<histRR, histNotRR>>
    \/ HCCommit /\ UNCHANGED <<histRR, histNotRR>>
    \/ HCSleep /\ UNCHANGED <<histRR, histNotRR>>

SpecRR == InitRR /\ [][NextRR]_vars

\* --------------------------------------- relay failures and the next call
\* The relay failures of any one record are watched.
InitRelay == InitProg /\ InitHist /\ up = {} /\ watch \in Servers

\* A mark that stands at 1 moves to 2.
Healed(m) == IF m = 1 THEN 2 ELSE m

RelayObsStart(r) ==
    /\ avoid' = [avoid EXCEPT ![r] = failed]
    /\ failed' = 0

RelayObsFail(r) ==
    /\ failed' = IF server[r] = watch THEN 1 ELSE failed
    /\ avoid' = [avoid EXCEPT ![r] = 0]

RelayObsEnd(r) ==
    /\ avoid' = [avoid EXCEPT ![r] = 0]
    /\ UNCHANGED failed

RelayObsCommit ==
    IF hcI = watch /\ Healthy'[hcI]
       THEN /\ failed' = Healed(failed)
            /\ avoid' = [r \in Reqs |-> Healed(avoid[r])]
       ELSE UNCHANGED <<failed, avoid>>

histNotRelay == <<watch, histMain, histLog, histRR, histProbe, histStatus,
                   histLater>>

\* Requests for application paths and the monitor, nothing being assumed
\* of the backends.
NextRelay ==
    \/ \E r \in Reqs :
          StartRequest(r, "app") /\ RelayObsStart(r) /\ UNCHANGED histNotRelay
    \/ \E r \in Reqs : ScanStep(r) /\ UNCHANGED <<histRelay, histNotRelay>>
    \/ \E r \in Reqs :
          NoHealthy(r) /\ RelayObsEnd(r) /\ UNCHANGED histNotRelay
    \/ \E r \in Reqs : Pick(r) /\ UNCHANGED <<histRelay, histNotRelay>>
    \/ \E r \in Reqs :
          RelayFail(r) /\ RelayObsFail(r) /\ UNCHANGED histNotRelay
    \/ \E r \in Reqs :
          RelayDone(r) /\ RelayObsEnd(r) /\ UNCHANGED histNotRelay
    \/ HCProbe /\ UNCHANGED <<histRelay, histNotRelay>>
    \/ HCRead /\ UNCHANGED <<histRelay, histNotRelay>>
    \/ HCCommit /\ RelayObsCommit /\ UNCHANGED histNotRelay
    \/ HCSleep /\ UNCHANGED <<histRelay, histNotRelay>>

SpecRelay == InitRelay /\ [][NextRelay]_vars

\* ------------------------------------------ one backend failing its probes
\* All backends but one serve reliably.
InitProbe ==
    /\ InitProg /\ InitHist
    /\ watch \in Servers
    /\ up = Servers \ {watch}

ProbeObsStart(r) ==
    /\ win' = [win EXCEPT ![r] = IF failRun > 0 THEN 1 ELSE 0]
    /\ deep' = [deep EXCEPT ![r] = failRun = 2]
    /\ UNCHANGED failRun

ProbeObsEnd(r) ==
    /\ win' = [win EXCEPT ![r] = 0]
    /\ deep' = [deep EXCEPT ![r] = FALSE]
    /\ UNCHANGED failRun

ProbeObsProbe ==
    IF hcI = watch /\ hcRes' = "ok"
       THEN /\ failRun' = 0
            /\ win' = [r \in Reqs |-> Healed(win[r])]
            /\ UNCHANGED deep
       ELSE UNCHANGED <<failRun, win, deep>>

ProbeObsCommit ==
    /\ failRun' = IF hcI = watch /\ hcRes # "ok" /\ failRun < 2
                     THEN failRun + 1
                     ELSE failRun
    /\ deep' = [r \in Reqs |-> deep[r] \/ (win[r] = 1 /\ failRun' = 2)]
    /\ UNCHANGED win

histNotProbe == <<watch, histMain, histLog, histRR, histRelay, histStatus,
                   histLater>>

\* Requests for application paths and the monitor, one backend being
\* unreliable.
NextProbe ==
    \/ \E r \in Reqs :
          StartRequest(r, "app") /\ ProbeObsStart(r) /\ UNCHANGED histNotProbe
    \/ \E r \in Reqs : ScanStep(r) /\ UNCHANGED <<histProbe, histNotProbe>>
    \/ \E r \in Reqs : Pick(r) /\ UNCHANGED <<histProbe, histNotProbe>>
    \/ \E r \in Reqs :
          RelayFail(r) /\ ProbeObsEnd(r) /\ UNCHANGED histNotProbe
    \/ \E r \in Reqs :
          RelayDone(r) /\ ProbeObsEnd(r) /\ UNCHANGED histNotProbe
    \/ HCProbe /\ ProbeObsProbe /\ UNCHANGED histNotProbe
    \/ HCRead /\ UNCHANGED <<histProbe, histNotProbe>>
    \/ HCCommit /\ ProbeObsCommit /\ UNCHANGED histNotProbe
    \/ HCSleep /\ UNCHANGED <<histProbe, histNotProbe>>

SpecProbe == InitProbe /\ [][NextProbe]_vars

\* ------------------------------------------------- backends recovering
\* The record the monitor has last committed.
LastProbed == IF hcPc = "sleep" THEN NumServers ELSE hcI - 1

LogObsProbe == hcLog' = "none"

LogObsCommit == hcLog' = LogLine(hcRes, wasHealthy)

histNotLog == <<watch, histMain, histRR, histRelay, histProbe, histStatus,
                 histLater>>

\* The request handlers whose relays SpecLive lets fail.
LiveReqs == {1}

\* A request handler, the monitor, and backends that start and stop to
\* serve reliably at any moment.
NextLive ==
    \/ \E r \in LiveReqs :
          StartRequest(r, "app") /\ UNCHANGED <<histLog, histNotLog>>
    \/ \E r \in LiveReqs : ScanStep(r) /\ UNCHANGED <<histLog, histNotLog>>
    \/ \E r \in LiveReqs : NoHealthy(r) /\ UNCHANGED <<histLog, histNotLog>>
    \/ \E r \in LiveReqs : Pick(r) /\ UNCHANGED <<histLog, histNotLog>>
    \/ \E r \in LiveReqs : RelayFail(r) /\ UNCHANGED <<histLog, histNotLog>>
    \/ \E r \in LiveReqs : RelayDone(r) /\ UNCHANGED <<histLog, histNotLog>>
    \/ \E s \in Servers : BackendUp(s) /\ UNCHANGED <<histLog, histNotLog>>
    \/ \E s \in Servers : BackendDown(s) /\ UNCHANGED <<histLog, histNotLog>>
    \/ HCProbe /\ LogObsProbe /\ UNCHANGED histNotLog
    \/ HCRead /\ UNCHANGED <<histLog, histNotLog>>
    \/ HCCommit /\ LogObsCommit /\ UNCHANGED histNotLog
    \/ HCSleep /\ UNCHANGED <<histLog, histNotLog>>

\* The monitor goroutine keeps running: client.Get returns within its
\* timeout, the lock is granted, the sleep ends.
MonitorFairness ==
    /\ WF_vars(HCProbe /\ LogObsProbe /\ UNCHANGED histNotLog)
    /\ WF_vars(HCRead /\ UNCHANGED <<histLog, histNotLog>>)
    /\ WF_vars(HCCommit /\ LogObsCommit /\ UNCHANGED histNotLog)
    /\ WF_vars(HCSleep /\ UNCHANGED <<histLog, histNotLog>>)

SpecLive == Init /\ [][NextLive]_vars /\ MonitorFairness

\* ------------------------------------------------------- status reports
\* The flags handleStatus has encoded so far are those of vector v.
Agrees(v, s) == \A i \in DOMAIN s : v[i] = s[i]

StatusObsStart(r) ==
    cand' = [cand EXCEPT ![r] = IF pc'[r] = "status" THEN {Healthy} ELSE {}]

StatusObsStep(r) ==
    cand' = [cand EXCEPT ![r] = {v \in @ : Agrees(v, snap'[r])}]

StatusObsWrite ==
    cand' = [r \in Reqs |->
                IF pc[r] = "status" /\ Agrees(Healthy', snap[r])
                   THEN cand[r] \cup {Healthy'}
                   ELSE cand[r]]

histNotStatus == <<watch, histMain, histLog, histRR, histRelay, histProbe,
                    histLater>>

\* The request handlers that serve the status requests of SpecStatus,
\* the others serving the requests for application paths.
StatusReqs == {1}

\* Status requests, requests for application paths and the monitor,
\* nothing being assumed of the backends.
NextStatus ==
    \/ \E r \in StatusReqs :
          StartRequest(r, "status") /\ StatusObsStart(r)
             /\ UNCHANGED histNotStatus
    \/ \E r \in Reqs \ StatusReqs :
          StartRequest(r, "app") /\ UNCHANGED <<histStatus, histNotStatus>>
    \/ \E r \in Reqs : ScanStep(r) /\ UNCHANGED <<histStatus, histNotStatus>>
    \/ \E r \in Reqs : NoHealthy(r) /\ UNCHANGED <<histStatus, histNotStatus>>
    \/ \E r \in Reqs : Pick(r) /\ UNCHANGED <<histStatus, histNotStatus>>
    \/ \E r \in Reqs :
          RelayFail(r) /\ StatusObsWrite /\ UNCHANGED histNotStatus
    \/ \E r \in Reqs : RelayDone(r) /\ UNCHANGED <<histStatus, histNotStatus>>
    \/ \E r \in Reqs :
          StatusStep(r) /\ StatusObsStep(r) /\ UNCHANGED histNotStatus
    \/ HCProbe /\ UNCHANGED <<histStatus, histNotStatus>>
    \/ HCRead /\ UNCHANGED <<histStatus, histNotStatus>>
    \/ HCCommit /\ StatusObsWrite /\ UNCHANGED histNotStatus
    \/ HCSleep /\ UNCHANGED <<histStatus, histNotStatus>>

SpecStatus == Init /\ [][NextStatus]_vars

\* ------------------------------------------------- concurrent selections
histNotCount == <<watch, histMain, histLog, histRR, histRelay, histProbe,
                  histStatus, histCycle, histRace>>

CountObsStart(r) ==
    /\ seen' = [seen EXCEPT ![r] = {}]
    /\ UNCHANGED <<picks, nextLog>>

CountObsScan(r) ==
    /\ seen' = [seen EXCEPT ![r] =
                   IF Healthy[idx[r]] THEN @ \cup {idx[r]} ELSE @]
    /\ UNCHANGED <<picks, nextLog>>

CountObsPick(r) ==
    /\ picks' = (picks + 1) % Modulus
    /\ nextLog' = (IF Len(nextLog) = MaxWindow THEN Tail(nextLog)
                                               ELSE nextLog) \o <<current'>>
    /\ UNCHANGED seen

CountObsEnd(r) ==
    /\ seen' = [seen EXCEPT ![r] = {}]
    /\ UNCHANGED <<picks, nextLog>>

\* Requests for application paths served by handlers whose GetNextServer
\* calls overlap at will, and the monitor, nothing being assumed of the
\* backends.
NextCount ==
    \/ \E r \in Reqs :
          StartRequest(r, "app") /\ CountObsStart(r) /\ UNCHANGED histNotCount
    \/ \E r \in Reqs :
          ScanStep(r) /\ CountObsScan(r) /\ UNCHANGED histNotCount
    \/ \E r \in Reqs :
          NoHealthy(r) /\ CountObsEnd(r) /\ UNCHANGED histNotCount
    \/ \E r \in Reqs :
          Pick(r) /\ CountObsPick(r) /\ UNCHANGED histNotCount
    \/ \E r \in Reqs :
          RelayFail(r) /\ CountObsEnd(r) /\ UNCHANGED histNotCount
    \/ \E r \in Reqs :
          RelayDone(r) /\ CountObsEnd(r) /\ UNCHANGED histNotCount
    \/ HCProbe /\ UNCHANGED <<histCount, histNotCount>>
    \/ HCRead /\ UNCHANGED <<histCount, histNotCount>>
    \/ HCCommit /\ UNCHANGED <<histCount, histNotCount>>
    \/ HCSleep /\ UNCHANGED <<histCount, histNotCount>>

SpecCount == Init /\ [][NextCount]_vars

\* ------------------------------------------------- the monitor's cycles
histNotCycle == <<watch, histMain, histRR, histRelay, histProbe, histStatus,
                  histCount, histRace>>

CycleObsProbe ==
    /\ probed' = Append(probed, hcI)
    /\ hcLog' = "none"
    /\ UNCHANGED <<lastCommit, cycled>>

CycleObsCommit ==
    /\ lastCommit' = [lastCommit EXCEPT ![hcI] = Healthy'[hcI]]
    /\ cycled' = (cycled \/ hcI = NumServers)
    /\ hcLog' = LogLine(hcRes, wasHealthy)
    /\ UNCHANGED probed

CycleObsSleep ==
    /\ probed' = << >>
    /\ UNCHANGED <<lastCommit, cycled, hcLog>>

\* A request handler serving requests for application paths, and the
\* monitor, nothing being assumed of the backends.
NextCycle ==
    \/ \E r \in LiveReqs :
          StartRequest(r, "app")
             /\ UNCHANGED <<histCycle, histLog, histNotCycle>>
    \/ \E r \in LiveReqs :
          ScanStep(r) /\ UNCHANGED <<histCycle, histLog, histNotCycle>>
    \/ \E r \in LiveReqs :
          NoHealthy(r) /\ UNCHANGED <<histCycle, histLog, histNotCycle>>
    \/ \E r \in LiveReqs :
          Pick(r) /\ UNCHANGED <<histCycle, histLog, histNotCycle>>
    \/ \E r \in LiveReqs :
          RelayFail(r) /\ UNCHANGED <<histCycle, histLog, histNotCycle>>
    \/ \E r \in LiveReqs :
          RelayDone(r) /\ UNCHANGED <<histCycle, histLog, histNotCycle>>
    \/ HCProbe /\ CycleObsProbe /\ UNCHANGED histNotCycle
    \/ HCRead /\ UNCHANGED <<histCycle, histLog, histNotCycle>>
    \/ HCCommit /\ CycleObsCommit /\ UNCHANGED histNotCycle
    \/ HCSleep /\ CycleObsSleep /\ UNCHANGED histNotCycle

\* The monitor goroutine keeps running: client.Get returns within its
\* timeout, the lock is granted, the sleep ends.
CycleFairness ==
    /\ WF_vars(HCProbe /\ CycleObsProbe /\ UNCHANGED histNotCycle)
    /\ WF_vars(HCRead /\ UNCHANGED <<histCycle, histLog, histNotCycle>>)
    /\ WF_vars(HCCommit /\ CycleObsCommit /\ UNCHANGED histNotCycle)
    /\ WF_vars(HCSleep /\ CycleObsSleep /\ UNCHANGED histNotCycle)

SpecCycle == Init /\ [][NextCycle]_vars /\ CycleFairness

\* The same program, any one record being watched.
SpecStarve == InitRelay /\ [][NextCycle]_vars /\ CycleFairness

\* ------------------------------------------- accesses to the health flags
\* Whether the record's lock is held during an access to its flag made
\* through op: IsHealthy takes the read lock and SetHealth the write lock,
\* the JSON encoder of handleStatus reads the field itself.
HoldsLock(op) == op \in {"IsHealthy", "SetHealth"}

histNotRace == <<watch, histMain, histLog, histRR, histRelay, histProbe,
                 histStatus, histCount, histCycle>>

\* An access to a flag made through op.
RaceObsAccess(op) ==
    /\ bare' = ~HoldsLock(op)
    /\ UNCHANGED mark

RaceObsFail(r) ==
    /\ bare' = ~HoldsLock("SetHealth")
    /\ mark' = (mark \/ server[r] = watch)

RaceObsProbe ==
    /\ mark' = (mark /\ hcI # watch)
    /\ UNCHANGED bare

\* A request handler serving requests for any path, and the monitor,
\* nothing being assumed of the backends; any one record is watched.
NextRace ==
    \/ \E r \in LiveReqs, p \in {"status", "app"} :
          StartRequest(r, p) /\ UNCHANGED <<histRace, histNotRace>>
    \/ \E r \in LiveReqs :
          ScanStep(r) /\ RaceObsAccess("IsHealthy") /\ UNCHANGED histNotRace
    \/ \E r \in LiveReqs :
          NoHealthy(r) /\ UNCHANGED <<histRace, histNotRace>>
    \/ \E r \in LiveReqs :
          Pick(r) /\ UNCHANGED <<histRace, histNotRace>>
    \/ \E r \in LiveReqs :
          RelayFail(r) /\ RaceObsFail(r) /\ UNCHANGED histNotRace
    \/ \E r \in LiveReqs :
          RelayDone(r) /\ UNCHANGED <<histRace, histNotRace>>
    \/ \E r \in LiveReqs :
          StatusStep(r) /\ RaceObsAccess("Encode") /\ UNCHANGED histNotRace
    \/ HCProbe /\ RaceObsProbe /\ UNCHANGED histNotRace
    \/ HCRead /\ RaceObsAccess("IsHealthy") /\ UNCHANGED histNotRace
    \/ HCCommit /\ RaceObsAccess("SetHealth") /\ UNCHANGED histNotRace
    \/ HCSleep /\ UNCHANGED <<histRace, histNotRace>>

SpecRace == InitRelay /\ [][NextRace]_vars

\* ------------------------------------------------------------ properties
\* r's status request takes a step: it enters handleStatus or encodes a
\* record.
StatusActs(r) ==
    \/ pc[r] = "idle" /\ pc'[r] # "idle" /\ path'[r] = "status"
    \/ pc[r] = "status" /\ (idx'[r] # idx[r] \/ pc'[r] # "status")

\* C2, as stated: whenever GetNextServer returns a record, the last
\* SetHealth completed on that record was not SetHealth(false), i.e. the
\* record's flag is set at the moment of the return.
C2_NeverReturnsUnhealthy ==
    [][\A r \in Reqs : Returns(r) => Healthy[server'[r]]]_vars

\* C2, amended: a GetNextServer call never returns a record whose flag it
\* read while the flag was unset (after a SetHealth(false) and before the
\* next SetHealth(true)), whatever the other goroutines do meanwhile.
C2_NeverReturnsReadUnhealthy ==
    \A r \in Reqs : pc[r] = "relay" => server[r] \notin sawDown[r]

C2_Witness ==
    \E r \in Reqs : pc[r] = "relay" /\ sawDown[r] # {}

\* C3: a non-status request whose GetNextServer call ran while every
\* record was unhealthy, none being marked healthy before it ended, finds
\* no healthy record, is answered 503 and is forwarded to no backend.
C3_AllUnhealthyGives503 ==
    \A r \in Reqs : dark[r] =>
        /\ pc[r] \in {"scan", "pick", "idle"}
        /\ healthyServers[r] = << >>
        /\ server[r] = 0 /\ tried[r] = 0
        /\ pc[r] = "idle" => resp[r] = StatusServiceUnavailable

C3_Witness ==
    \E r \in Reqs :
        dark[r] /\ pc[r] = "idle" /\ resp[r] = StatusServiceUnavailable

\* C5: the step of the Health Monitor that commits a probe sets the probed
\* record's flag to TRUE if the probe completed with status 200 and to
\* FALSE otherwise, whatever the flag was, and sets no other flag.
C5_CommitIffStatusOK ==
    [][hcPc = "commit" /\ hcPc' # "commit" =>
          Healthy' = [Healthy EXCEPT ![hcI] = (hcRes = "ok")]]_vars

\* No request has been made yet, so only the monitor has written flags:
\* it has committed record 1 unhealthy and record 2 healthy.
C5_Witness ==
    /\ \A r \in Reqs : pc[r] = "idle" /\ resp[r] = 0
    /\ hcPc = "probe" /\ hcI = 3
    /\ ~Healthy[1] /\ Healthy[2]

\* C8: a non-status request calls GetNextServer exactly once; the step
\* that ends its relay ends the request, selects no other record, leaves
\* the counter and the flags of all other records unchanged, and a failed
\* relay is answered 503.
C8_SingleAttempt ==
    [][\A r \in Reqs :
          /\ calls'[r] <= 1
          /\ Answers(r) /\ path[r] = "app" => calls'[r] = 1
          /\ pc[r] = "relay" /\ pc'[r] # "relay" =>
                /\ pc'[r] = "idle"
                /\ tried'[r] = server[r]
                /\ current' = current
                /\ \A s \in Servers \ {server[r]} : Healthy'[s] = Healthy[s]
          /\ RelayFail(r) =>
                resp'[r] = StatusServiceUnavailable /\ ~Healthy'[server[r]]
      ]_vars

C8_Witness ==
    \E r \in Reqs :
        /\ pc[r] = "idle" /\ path[r] = "app" /\ calls[r] = 1
        /\ resp[r] = StatusServiceUnavailable /\ tried[r] # 0
        /\ \E s \in Servers \ {tried[r]} : Healthy[s]

\* C9: a request for /lb-status makes no GetNextServer call and selects no
\* record, and none of its steps changes the counter or a health flag.
C9_StatusReadOnly ==
    [][\A r \in Reqs :
          /\ path'[r] = "status" =>
                /\ calls'[r] = 0 /\ server'[r] = 0 /\ tried'[r] = 0
                /\ pc'[r] \in {"status", "idle"}
          /\ StatusActs(r) => current' = current /\ Healthy' = Healthy
      ]_vars

C9_Witness ==
    \E r \in Reqs :
        /\ path[r] = "status" /\ pc[r] = "idle"
        /\ resp[r] = StatusOK /\ Len(snap[r]) = NumServers
        /\ current # 0

\* The cyclic successor of record s in Registry order.
Succ(s) == (s % NumServers) + 1

\* Number of occurrences of record s in seq.
Count(seq, s) == Cardinality({i \in DOMAIN seq : seq[i] = s})

\* C1: all records staying healthy, in every run of N consecutive
\* selections each record is returned floor(N/k) or ceil(N/k) times and each
\* selection is the cyclic successor of the one before.
C1_RoundRobin ==
    /\ \A i \in 1 .. Len(rrHist) - 1 : rrHist[i + 1] = Succ(rrHist[i])
    /\ \A i \in DOMAIN rrHist : \A j \in i .. Len(rrHist) :
          LET N == j - i + 1
          IN  \A s \in Servers :
                 Count(SubSeq(rrHist, i, j), s)
                    \in {N \div NumServers,
                         (N + NumServers - 1) \div NumServers}

\* C4, as stated: the first GetNextServer call that starts after a relay
\* to B has failed does not return B, whatever the monitor does meanwhile.
C4_NextCallAvoids ==
    \A r \in Reqs : pc[r] = "relay" /\ avoid[r] # 0 => server[r] # watch

\* C4, amended: a failed relay to B leaves B unhealthy and its request
\* answered 503, and the first GetNextServer call that starts afterwards
\* does not return B unless the monitor has committed B healthy since the
\* failure.
C4_NextCallAvoidsUnlessHealed ==
    /\ failed = 1 =>
          /\ ~Healthy[watch]
          /\ \E r \in Reqs :
                pc[r] = "idle" /\ resp[r] = StatusServiceUnavailable
    /\ \A r \in Reqs : avoid[r] = 1 =>
          /\ ~Healthy[watch]
          /\ pc[r] = "relay" => server[r] # watch

C4_Witness ==
    \E r \in Reqs : pc[r] = "relay" /\ avoid[r] = 1

\* C6, as stated: when two failed probes of B in a row have been
\* committed, a GetNextServer call that started after the first of them was
\* committed and before a later probe of B succeeded does not return B.
C6_WindowExcludes ==
    \A r \in Reqs : pc[r] = "relay" /\ deep[r] => server[r] # watch

\* C6, amended: a call that started after a failed probe of B was
\* committed, and that returns before a later probe of B succeeds, returns
\* one of the other two records.
C6_WindowExcludesUntilProbeOK ==
    \A r \in Reqs : win[r] = 1 =>
        /\ ~Healthy[watch]
        /\ pc[r] \in {"scan", "pick", "relay"}
        /\ pc[r] = "relay" => server[r] \in Servers \ {watch}

C6_Witness ==
    \E r \in Reqs : pc[r] = "relay" /\ win[r] = 1 /\ deep[r]

\* C7: under fair scheduling of the monitor, a record whose backend
\* serves reliably from some point on (200 to every probe, no relay
\* failing) is eventually marked healthy and stays so, the selector's
\* filter keeping it from then on.
C7_EventuallyHealthy ==
    \A s \in Servers : <>[](s \in up) => <>[]Healthy[s]

\* The monitor has logged "is back up" for a record that serves reliably.
C7_Witness ==
    /\ hcLog = "backup"
    /\ LastProbed \in up
    /\ Healthy[LastProbed]

\* C10: the flags of a finished status report are those the Registry held
\* at one instant between the start and the end of its handleStatus call.
C10_ConsistentSnapshot ==
    \A r \in Reqs :
        path[r] = "status" /\ pc[r] = "idle" /\ resp[r] = StatusOK
            => cand[r] # {}

\* r's GetNextServer call has returned record s.
Selected(r, s) == pc[r] = "relay" /\ server[r] = s

\* Handler r serves request after request, each one getting a record from
\* GetNextServer: again and again r is relaying and again and again it is
\* done with its request.
SelectsForever(r) == []<>(pc[r] = "relay") /\ []<>(pc[r] = "idle")

\* C11: a record (any one: the watched record) that stays healthy
\* throughout is returned by infinitely many GetNextServer calls whenever
\* infinitely many calls return a record, whatever the flags of the other
\* records do between the calls.
C11_NoStarvation ==
    \A r \in LiveReqs :
        ([]Healthy[watch] /\ SelectsForever(r)) => []<>Selected(r, watch)

\* C12: the counter equals its initial value 0 plus the number of
\* selections made so far, at the counter's width, however the calls
\* interleave; successive selections index with successive counter values,
\* so that no two selections fewer than Modulus selections apart index with
\* the same value.
C12_CounterCountsSelections ==
    /\ current = picks
    /\ nextLog # << >> => nextLog[Len(nextLog)] = current
    /\ \A i \in DOMAIN nextLog : \A j \in DOMAIN nextLog :
          i < j =>
             /\ nextLog[j] = (nextLog[i] + (j - i)) % Modulus
             /\ j - i < Modulus => nextLog[j] # nextLog[i]

\* Selections have been made, the counter has wrapped, and the calls of
\* all handlers are in progress together, each about to increment.
C12_Witness ==
    /\ \A r \in Reqs : pc[r] = "pick" /\ healthyServers[r] # << >>
    /\ Len(nextLog) = MaxWindow
    /\ current = 0

\* The record at 0-based position k of the records of set S listed in
\* Registry order.
NthOf(S, k) == CHOOSE x \in S : Cardinality({y \in S : y < x}) = k

\* C14: a GetNextServer call that returns a record returns the one at
\* position (c mod m) of the healthy records it observed, listed in
\* Registry order, m being their number and c the counter's value after the
\* call's increment; the first selection from a fresh Registry, all records
\* being observed healthy, is the record at 0-based index 1.
C14_ReturnsCounterModHealthy ==
    [][\A r \in Reqs : Returns(r) =>
          /\ seen[r] # {}
          /\ server'[r] =
                NthOf(seen[r], ((current + 1) % Modulus)
                                   % Cardinality(seen[r]))
          /\ (picks = 0 /\ current = 0 /\ seen[r] = Servers)
                => server'[r] = 2
      ]_vars

\* A call that observed two healthy records has returned the second of
\* them, the counter's value after its increment being odd.
C14_Witness ==
    \E r \in Reqs :
        /\ pc[r] = "relay" /\ Cardinality(seen[r]) = 2
        /\ server[r] = NthOf(seen[r], 1)
        /\ nextLog[Len(nextLog)] % 2 = 1

\* r's GetNextServer call takes a step: an iteration of its loop, its
\* increment and return, or its return of the error.
CallActs(r) ==
    /\ pc[r] \in {"scan", "pick"}
    /\ idx'[r] # idx[r] \/ pc'[r] # pc[r]

\* C15: no step of a GetNextServer call changes a health flag; the step
\* in which the call returns a record increments the counter by exactly 1
\* (at the counter's width) and no other step of the call, the return of
\* the no-healthy-server error included, changes the counter.
C15_ChangesOnlyCounter ==
    [][\A r \in Reqs : CallActs(r) =>
          /\ Healthy' = Healthy
          /\ Returns(r) => current' = (current + 1) % Modulus
          /\ ~Returns(r) => current' = current
          /\ pc'[r] = "idle" =>
                resp'[r] = StatusServiceUnavailable /\ server'[r] = 0
      ]_vars

\* One call has failed with the error while another has returned a
\* record, some record being unhealthy.
C15_Witness ==
    \E r \in Reqs : \E q \in Reqs \ {r} :
        /\ pc[r] = "idle" /\ path[r] = "app" /\ calls[r] = 1
        /\ tried[r] = 0 /\ resp[r] = StatusServiceUnavailable
        /\ pc[q] = "relay" /\ current # 0
        /\ \E s \in Servers : ~Healthy[s]

\* The monitor commits a probe in this step.
MonitorCommits == hcPc = "commit" /\ hcPc' # "commit"

\* r's relay ends in this step.
RelayEnds(r) == pc[r] = "relay" /\ pc'[r] # "relay"

\* C18: a step changes the health flags only if it is a probe commit of
\* the monitor, which changes the probed record's flag alone, or a relay
\* failure, which sets the selected record's flag to FALSE alone; a flag
\* goes from FALSE to TRUE only in a probe commit of a 200; the end of a
\* relay sets no flag to TRUE, and a relay completed with any status code
\* changes no flag.
C18_OnlyMonitorHeals ==
    [][/\ Healthy' # Healthy =>
             \/ /\ MonitorCommits
                /\ \A s \in Servers \ {hcI} : Healthy'[s] = Healthy[s]
             \/ \E r \in Reqs :
                   /\ RelayEnds(r)
                   /\ resp'[r] = StatusServiceUnavailable
                   /\ Healthy' = [Healthy EXCEPT ![server[r]] = FALSE]
       /\ \A s \in Servers : ~Healthy[s] /\ Healthy'[s] =>
             MonitorCommits /\ hcI = s /\ hcRes = "ok"
       /\ \A r \in Reqs : RelayEnds(r) =>
             /\ \A s \in Servers : Healthy'[s] => Healthy[s]
             /\ resp'[r] \in BackendStatuses => Healthy' = Healthy
      ]_vars

\* One relay has failed and left its record unhealthy, another has
\* completed with a 500 and left its record healthy.
C18_Witness ==
    \E r \in Reqs : \E q \in Reqs \ {r} :
        /\ pc[r] = "idle" /\ resp[r] = StatusServiceUnavailable
        /\ tried[r] # 0 /\ ~Healthy[tried[r]]
        /\ pc[q] = "idle" /\ resp[q] = 500
        /\ tried[q] # 0 /\ Healthy[tried[q]]

\* C20: all records staying healthy, the selection made when the counter
\* wraps from its maximum value to 0 is the cyclic successor in Registry
\* order of the selection made just before.
C20_WrapKeepsOrder ==
    (current = 0 /\ Len(rrHist) >= 2) =>
        rrHist[Len(rrHist)] = Succ(rrHist[Len(rrHist) - 1])

\* The lines that report a change of state: "health check failed", "is back
\* up", "is down".
TransitionLines == {"failed", "backup", "down"}

\* C16: from the monitor's second cycle on, the line logged for a record
\* is a transition event if the state committed by this cycle's probe
\* differs from the state committed for the record by the previous cycle,
\* and the heartbeat otherwise, whatever relay failures did to the flag
\* between the two cycles.
C16_LogsTransitionsOnly ==
    [][(MonitorCommits /\ cycled) =>
          IF ProbeHealthy(hcRes) # lastCommit[hcI]
             THEN hcLog' \in TransitionLines
             ELSE hcLog' = "still"
      ]_vars

\* The records probed so far in the current cycle are the first ones of the
\* Registry, each probed once, in Registry order; the cycle ends when all
\* have been probed.
CycleInOrder ==
    /\ \A i \in DOMAIN probed : probed[i] = i
    /\ hcPc = "probe" => Len(probed) = hcI - 1
    /\ hcPc \in {"read", "commit"} => Len(probed) = hcI
    /\ hcPc = "sleep" => Len(probed) = NumServers

\* C17: every cycle of the monitor probes every record exactly once, in
\* Registry order, whatever the outcomes of the probes; every cycle that
\* starts ends, and after every cycle another one starts.
C17_EveryCycleProbesAll ==
    /\ []CycleInOrder
    /\ (hcPc = "probe" /\ hcI = 1) ~> (hcPc = "sleep")
    /\ (hcPc = "sleep") ~> (hcPc = "probe" /\ hcI = 1 /\ probed = << >>)

\* A second cycle has ended in which the probes of records 1 and 2 failed
\* and the probe of record 3 succeeded.
C17_Witness ==
    /\ hcPc = "sleep" /\ cycled
    /\ probed = <<1, 2, 3>>
    /\ lastCommit = <<FALSE, FALSE, TRUE>>
    /\ hcLog = "backup"

\* C13: every access to a record's health flag, by the selector, the
\* monitor, the forwarder or the status reporter, is made while holding
\* the record's lock.
C13_EveryAccessLocked == ~bare

\* C19: once a relay failure has marked record B unhealthy, B stays
\* unhealthy until a probe of B that returns after the failure is
\* committed: a probe that returned before the failure does not set B
\* healthy again.
C19_StaleProbeKeepsMark == mark => ~Healthy[watch]

====
